---- MODULE Spec2Model ----
(***************************************************************************)
(* A model of cycontext's TagObject (src/cycontext/tag_object.py) and of   *)
(* the ConTextItem that defines it (src/cycontext/context_item.py).        *)
(*                                                                         *)
(* One TagObject ("self") is the state machine: its defining item and its  *)
(* span are fixed at construction, its scope bounds and its claimed        *)
(* targets are the mutable state.  The other TagObjects handed to          *)
(* limit_scope and the target spans handed to modifies/modify are inputs,  *)
(* drawn from every occurrence / span the bounded document admits.         *)
(*                                                                         *)
(* Python's None is the empty tuple, a present value v is <<v>>.  Return   *)
(* values are the strings "True", "False", "None", and the name of the     *)
(* exception when the call raises.                                         *)
(***************************************************************************)
EXTENDS Integers, Sequences, FiniteSets, TLC

\* ------------------------------------------------------------------ bounds
\* number of tokens of the document
DocLen == 6
\* longest span (modifier or target), in tokens
MaxSpanLen == 2
\* largest max_scope / max_targets a definition is given
MaxCap == 2
\* longest list of claimed targets
MaxClaimed == 3

\* ----------------------------------------------------------------- helpers
None == << >>
Some(v) == << v >>

Min(a, b) == IF a <= b THEN a ELSE b
Max(a, b) == IF a >= b THEN a ELSE b
Abs(a) == IF a < 0 THEN 0 - a ELSE a

\* str.upper() on the strings the model uses
Upper(s) ==
    CASE s = "forward" -> "FORWARD"
      [] s = "backward" -> "BACKWARD"
      [] s = "bidirectional" -> "BIDIRECTIONAL"
      [] s = "terminate" -> "TERMINATE"
      [] s = "negated_existence" -> "NEGATED_EXISTENCE"
      [] s = "uncertain" -> "UNCERTAIN"
      [] s = "problem" -> "PROBLEM"
      [] s = "Problem" -> "PROBLEM"
      [] s = "treatment" -> "TREATMENT"
      [] OTHER -> s

\* str.lower() on the rule names
Lower(s) ==
    CASE s = "FORWARD" -> "forward"
      [] s = "BACKWARD" -> "backward"
      [] s = "BIDIRECTIONAL" -> "bidirectional"
      [] s = "TERMINATE" -> "terminate"
      [] OTHER -> s

\* ---------------------------------------------------------------- document
\* The document has two sentences, [0, SentBreak) and [SentBreak, DocLen):
\* a long one, and a short one for the occurrences of another sentence.
SentBreak == DocLen - 1

\* doc[i].sent, as the half-open token range of the sentence holding token i
sent(i) ==
    IF i < SentBreak
    THEN [start |-> 0, end |-> SentBreak]
    ELSE [start |-> SentBreak, end |-> DocLen]

\* the spans a matcher can hand over: non-empty, inside one sentence
Spans ==
    { sp \in (0 .. DocLen - 1) \X (1 .. DocLen) :
        /\ sp[1] < sp[2]
        /\ sp[2] - sp[1] <= MaxSpanLen
        /\ sent(sp[1]) = sent(sp[2] - 1) }

\* doc[start:stop]: the slice bounds spaCy keeps for the Span it returns
\* (negative indices count from the end, both bounds are brought into the
\* document and stop is raised to start); two such Spans are equal when their
\* bounds are
normalize_slice(length, start, stop) ==
    LET s0 == IF start < 0 THEN start + length ELSE start
        s1 == Min(length, Max(0, s0))
        e0 == IF stop < 0 THEN stop + length ELSE stop
        e1 == Min(length, Max(s1, e0))
    IN  << s1, e1 >>

\* token in span (Span iterates its tokens; tokens compare by position)
InSpan(i, lo, hi) == lo <= i /\ i < hi

\* ------------------------------------------------------------- ConTextItem
ALLOWED_RULES ==
    {"FORWARD", "BACKWARD", "BIDIRECTIONAL", "TERMINATE", "MAX_TARGETS", "MAX_SCOPE"}

\* ConTextItem.__init__ raises ValueError
ConTextItemRaises(category, rule, allowed_types, excluded_types, max_targets, max_scope) ==
    \/ allowed_types # None /\ excluded_types # None
    \/ max_targets # None /\ max_targets[1] <= 0
    \/ max_scope # None /\ max_scope[1] <= 0
    \/ Upper(rule) \notin ALLOWED_RULES

\* the attributes ConTextItem.__init__ sets (literal, pattern and metadata
\* are never read by TagObject and are left out)
ConTextItem(category, rule, allowed_types, excluded_types, max_targets, max_scope) ==
    [ category |-> Upper(category),
      rule |-> Upper(rule),
      allowed_types |->
          IF allowed_types # None
          THEN Some({ Upper(label) : label \in allowed_types[1] })
          ELSE None,
      excluded_types |->
          IF excluded_types # None
          THEN Some({ Upper(label) : label \in excluded_types[1] })
          ELSE None,
      max_targets |-> max_targets,
      max_scope |-> max_scope ]

\* hasattr(item, name): the attributes of a constructed ConTextItem
HasAttr(it, name) == name \in DOMAIN it

\* set_scope with a fault: the two caps of the bidirectional branch exclude each
\* other (elif), so the forward side is not capped once the backward side is
set_scope_elif(it, s, e) ==
    LET st == sent(s)
        k == it.max_scope
    IN  IF Lower(it.rule) = "forward"
        THEN IF k # None /\ (st.end - e) > k[1]
             THEN << e, e + k[1] >>
             ELSE << e, st.end >>
        ELSE IF Lower(it.rule) = "backward"
        THEN IF k # None /\ (s - st.start) > k[1]
             THEN << s - k[1], s >>
             ELSE << st.start, s >>
        ELSE IF k # None /\ (s - st.start) > k[1]
             THEN << s - k[1], st.end >>
             ELSE IF k # None /\ (st.end - e) > k[1]
             THEN << st.start, e + k[1] >>
             ELSE << st.start, st.end >>

\* ------------------------------------------------------- TagObject.set_scope
set_scope(it, s, e) ==
    LET st == sent(s)
        k == it.max_scope
    IN  IF Lower(it.rule) = "forward"
        THEN LET s0 == e
                 e0 == st.end
             IN  IF k # None /\ (e0 - s0) > k[1]
                 THEN << s0, e + k[1] >>
                 ELSE << s0, e0 >>
        ELSE IF Lower(it.rule) = "backward"
        THEN LET s0 == st.start
                 e0 == s
             IN  IF k # None /\ (e0 - s0) > k[1]
                 THEN << s - k[1], e0 >>
                 ELSE << s0, e0 >>
        ELSE LET s0 == st.start
                 e0 == st.end
                 s1 == IF k # None /\ (s - s0) > k[1] THEN s - k[1] ELSE s0
                 e1 == IF k # None /\ (e0 - e) > k[1] THEN e + k[1] ELSE e0
             IN  << s1, e1 >>

\* TagObject.__init__
TagObject(it, s, e) ==
    LET sc == set_scope(it, s, e)
    IN  [ item |-> it, start |-> s, end |-> e,
          scope_start |-> sc[1], scope_end |-> sc[2] ]

\* ------------------------------------------------------------ span ordering
\* Span.__gt__ / Span.__lt__ of the installed spaCy: releases 2.x compare the
\* start character offset alone, releases 3.x compare (start, end, ...)
\* tuples.  Which one the build has is fixed per run (span_order).
SpanOrders == {"start_char", "tuple"}

\* TagObject.__gt__: self.span > other.span
Gt(a, b, order) ==
    IF order = "start_char"
    THEN a.start > b.start
    ELSE a.start > b.start \/ (a.start = b.start /\ a.end > b.end)

\* TagObject.__lt__: self.span < other.span
Lt(a, b, order) ==
    IF order = "start_char"
    THEN a.start < b.start
    ELSE a.start < b.start \/ (a.start = b.start /\ a.end < b.end)

\* TagObject.scope: doc[self._scope_start : self._scope_end]
scope(scope_start_, scope_end_) == normalize_slice(DocLen, scope_start_, scope_end_)

\* ----------------------------------------------------- TagObject.limit_scope
\* clip_end with a fault: the bound is assigned, not clipped
clip_end_assign(scope_end_, other_start) == other_start

\* self._scope_end = min(self._scope_end, other.start)
clip_end(scope_end_, other_start) == Min(scope_end_, other_start)

\* clip_start with a fault: the bound is assigned, not clipped
clip_start_assign(scope_start_, other_end) == other_end

\* self._scope_start = max(self._scope_start, other.end)
clip_start(scope_start_, other_end) == Max(scope_start_, other_end)

\* The result: the stored bounds after the call and what the call returned.
limit_scope(self, other, order) ==
    LET keep(r) == [ scope_start |-> self.scope_start,
                     scope_end |-> self.scope_end, ret |-> r ]
    IN  IF sent(self.start) # sent(other.start)
        THEN keep("False")
        ELSE IF Upper(self.item.rule) = "TERMINATE"
        THEN keep("False")
        ELSE IF Upper(other.item.rule) # "TERMINATE" /\ ~HasAttr(self.item, "terminated_by")
        THEN keep("AttributeError")
        ELSE IF /\ Upper(other.item.rule) # "TERMINATE"
                /\ Upper(other.item.category) \notin self.item.terminated_by
                /\ Upper(other.item.category) # Upper(self.item.category)
        THEN keep("False")
        ELSE IF /\ self.item.category = other.item.category
                /\ \/ self.item.allowed_types # other.item.allowed_types
                   \/ self.item.excluded_types # other.item.excluded_types
        THEN keep("False")
        ELSE LET orig_scope == scope(self.scope_start, self.scope_end)
                 e1 == IF /\ Lower(self.item.rule) \in {"forward", "bidirectional"}
                          /\ Gt(other, self, order)
                       THEN clip_end(self.scope_end, other.start)
                       ELSE self.scope_end
                 s1 == IF /\ Lower(self.item.rule) \in {"backward", "bidirectional"}
                          /\ Lt(other, self, order)
                       THEN clip_start(self.scope_start, other.end)
                       ELSE self.scope_start
             IN  [ scope_start |-> s1, scope_end |-> e1,
                   ret |-> IF orig_scope # scope(s1, e1) THEN "True" ELSE "False" ]

\* ---------------------------------------------------------------- targets
\* spacy Span with a label: a target concept
TargetLabels == {"problem", "TREATMENT"}
Targets == { [start |-> sp[1], end |-> sp[2], label_ |-> l] : sp \in Spans, l \in TargetLabels }

\* allows with a fault: excluded_types is not consulted
allows_without_excluded(it, target_label) ==
    IF it.allowed_types # None
    THEN IF target_label \notin it.allowed_types[1] THEN FALSE ELSE TRUE
    ELSE TRUE

\* TagObject.allows
allows(it, target_label) ==
    IF it.allowed_types # None
    THEN IF target_label \notin it.allowed_types[1] THEN FALSE ELSE TRUE
    ELSE IF it.excluded_types # None
    THEN IF target_label \notin it.excluded_types[1] THEN TRUE ELSE FALSE
    ELSE TRUE

\* TagObject.overlaps_target
overlaps_target(self, target) ==
    \/ InSpan(self.start, target.start, target.end)
    \/ InSpan(self.end - 1, target.start, target.end)
    \/ InSpan(target.start, self.start, self.end)
    \/ InSpan(target.end - 1, self.start, self.end)

\* TagObject.modifies
modifies(self, target) ==
    LET sc == scope(self.scope_start, self.scope_end)
    IN  IF overlaps_target(self, target) THEN FALSE
        ELSE IF self.item.rule = "TERMINATE" THEN FALSE
        ELSE IF ~allows(self.item, Upper(target.label_)) THEN FALSE
        ELSE IF InSpan(target.start, sc[1], sc[2]) THEN TRUE
        ELSE IF InSpan(target.end - 1, sc[1], sc[2]) THEN TRUE
        ELSE FALSE

\* --------------------------------------------- TagObject.reduce_targets
\* the distance reduce_targets measures between self's span and a target
dist(s, e, target) == Min(Abs(s - target.end), Abs(target.start - e))

\* InsertByDist with a fault: an unstable sort, equal keys change places
InsertByDist_unstable(x, srtd, s, e) ==
    LET n == Cardinality({ i \in 1 .. Len(srtd) : dist(s, e, srtd[i]) < dist(s, e, x) })
    IN  SubSeq(srtd, 1, n) \o << x >> \o SubSeq(srtd, n + 1, Len(srtd))

\* list.insert keeping a list sorted by distance, after the equal keys
InsertByDist(x, srtd, s, e) ==
    LET n == Cardinality({ i \in 1 .. Len(srtd) : dist(s, e, srtd[i]) <= dist(s, e, x) })
    IN  SubSeq(srtd, 1, n) \o << x >> \o SubSeq(srtd, n + 1, Len(srtd))

\* sorted(target_dists, key=lambda x: x[1]): Python's sort is stable
RECURSIVE sorted(_, _, _)
sorted(seq, s, e) ==
    IF seq = << >>
    THEN << >>
    ELSE InsertByDist(seq[Len(seq)], sorted(SubSeq(seq, 1, Len(seq) - 1), s, e), s, e)

\* The result: _targets, the Python type holding it, and _num_targets.
reduce_targets(self) ==
    IF self.item.max_targets = None \/ self.num_targets <= self.item.max_targets[1]
    THEN [ targets |-> self.targets, targets_type |-> self.targets_type,
           num_targets |-> self.num_targets ]
    ELSE LET srtd_targets == sorted(self.targets, self.start, self.end)
             kept == SubSeq(srtd_targets, 1, Min(self.item.max_targets[1], Len(srtd_targets)))
         IN  [ targets |-> kept, targets_type |-> "tuple", num_targets |-> Len(kept) ]

\* -------------------------------------------------------- TagObject.modify
\* list.append exists, tuple.append does not: the call raises before the
\* counter is touched.
modify(self, target) ==
    IF self.targets_type # "list"
    THEN [ targets |-> self.targets, num_targets |-> self.num_targets,
           ret |-> "AttributeError" ]
    ELSE [ targets |-> Append(self.targets, target),
           num_targets |-> self.num_targets + 1, ret |-> "None" ]

\* ------------------------------------------------------------------ state
VARIABLES
    item,          \* self.context_item
    start,         \* self.start
    end,           \* self.end
    scope_start,   \* self._scope_start
    scope_end,     \* self._scope_end
    targets,       \* self._targets
    targets_type,  \* the Python type of self._targets: "list" or "tuple"
    num_targets,   \* self._num_targets
    span_order,    \* which Span ordering the installed spaCy has
    call,          \* the call the caller has just made on self, with the
                   \* state it found; op = "idle" between two calls
    ret            \* what that call returned or raised

vars == << item, start, end, scope_start, scope_end, targets, targets_type,
           num_targets, span_order, call, ret >>

Self ==
    [ item |-> item, start |-> start, end |-> end,
      scope_start |-> scope_start, scope_end |-> scope_end,
      targets |-> targets, targets_type |-> targets_type,
      num_targets |-> num_targets ]

Call(op, other, target) ==
    [ op |-> op, other |-> other, target |-> target,
      pre_scope_start |-> scope_start, pre_scope_end |-> scope_end,
      pre_targets |-> targets, pre_num_targets |-> num_targets ]

\* ----------------------------------------------------------------- inputs
Caps == { None } \cup { Some(k) : k \in 1 .. MaxCap }
TypeFilters ==
    { << None, None >>, << Some({"Problem"}), None >>, << None, Some({"problem"}) >> }

\* the occurrences limit_scope is called against
Others ==
    { TagObject(ConTextItem(c, r, f[1], f[2], None, None), sp[1], sp[2]) :
        c \in {"NEGATED_EXISTENCE", "uncertain"}, r \in {"FORWARD", "terminate"},
        f \in { << None, None >>, << Some({"Problem"}), None >> }, sp \in Spans }

\* ------------------------------------------------------------------- Init
\* TagObject(ConTextItem(...), start, end, doc) for every valid definition
\* over the given rules and caps, and every span
InitWith(rules, filters, scopeCaps, targetCaps, orders) ==
    \E c \in {"negated_existence"}, r \in rules, f \in filters,
       ms \in scopeCaps, mt \in targetCaps, sp \in Spans, o \in orders :
        /\ ~ConTextItemRaises(c, r, f[1], f[2], mt, ms)
        /\ item = ConTextItem(c, r, f[1], f[2], mt, ms)
        /\ start = sp[1]
        /\ end = sp[2]
        /\ scope_start = set_scope(item, sp[1], sp[2])[1]
        /\ scope_end = set_scope(item, sp[1], sp[2])[2]
        /\ targets = << >>
        /\ targets_type = "list"
        /\ num_targets = 0
        /\ span_order = o
        /\ call = [ op |-> "__init__", other |-> None, target |-> None,
                    pre_scope_start |-> scope_start, pre_scope_end |-> scope_end,
                    pre_targets |-> << >>, pre_num_targets |-> 0 ]
        /\ ret = "None"

Rules == {"forward", "BACKWARD", "bidirectional", "TERMINATE"}

\* every occurrence, with no cap on its targets
Init == InitWith(Rules, TypeFilters, Caps, { None }, SpanOrders)

\* the occurrences that reach both ways over their whole sentence and accept
\* one label, with every cap on their targets
InitTargets ==
    InitWith({"bidirectional"}, { << Some({"Problem"}), None >> }, { None }, Caps, {"tuple"})

\* ---------------------------------------------------------------- actions
\* between two calls the caller holds no result
Idle ==
    [ op |-> "idle", other |-> None, target |-> None,
      pre_scope_start |-> 0, pre_scope_end |-> 0,
      pre_targets |-> << >>, pre_num_targets |-> 0 ]

\* the caller takes the result of the call and goes on
Return ==
    /\ call.op # "idle"
    /\ call' = Idle
    /\ ret' = "None"
    /\ UNCHANGED << item, start, end, scope_start, scope_end, targets, targets_type,
                    num_targets, span_order >>

LimitScope(other) ==
    LET r == limit_scope(Self, other, span_order)
    IN  /\ call.op = "idle"
        /\ scope_start' = r.scope_start
        /\ scope_end' = r.scope_end
        /\ ret' = r.ret
        /\ call' = Call("limit_scope", Some(other), None)
        /\ UNCHANGED << item, start, end, targets, targets_type, num_targets, span_order >>

Modifies(target) ==
    /\ call.op = "idle"
    /\ ret' = IF modifies(Self, target) THEN "True" ELSE "False"
    /\ call' = Call("modifies", None, Some(target))
    /\ UNCHANGED << item, start, end, scope_start, scope_end, targets, targets_type,
                    num_targets, span_order >>

\* The caller claims a target for self once modifies has accepted it.
Modify(target) ==
    LET r == modify(Self, target)
    IN  /\ call.op = "idle"
        /\ Len(targets) < MaxClaimed
        /\ modifies(Self, target)
        /\ targets' = r.targets
        /\ num_targets' = r.num_targets
        /\ ret' = r.ret
        /\ call' = Call("modify", None, Some(target))
        /\ UNCHANGED << item, start, end, scope_start, scope_end, targets_type, span_order >>

ReduceTargets ==
    LET r == reduce_targets(Self)
    IN  /\ call.op = "idle"
        /\ targets' = r.targets
        /\ targets_type' = r.targets_type
        /\ num_targets' = r.num_targets
        /\ ret' = "None"
        /\ call' = Call("reduce_targets", None, None)
        /\ UNCHANGED << item, start, end, scope_start, scope_end, span_order >>

\* limit_scope and modifies never read the claimed targets, modify and
\* reduce_targets never write the scope: the scope half and the target half of
\* a TagObject are explored as two specifications.
Next ==
    \/ \E other \in Others : LimitScope(other)
    \/ \E target \in Targets : Modifies(target)
    \/ Return

NextTargets ==
    \/ \E target \in Targets : Modify(target)
    \/ ReduceTargets
    \/ Return

Spec == Init /\ [][Next]_vars

SpecTargets == InitTargets /\ [][NextTargets]_vars

\* ================================================================ claims
\* what the constructor's set_scope stored
InitialScope == set_scope(item, start, end)

\* the arguments of the call the caller has just made
Other == call.other[1]
Target == call.target[1]

\* the tokens of a span
TokensOf(sp) == sp.start .. (sp.end - 1)

\* other lies entirely after self, in self's sentence
OtherAfterSelf == sent(Other.start) = sent(start) /\ Other.start >= end

\* C1: limit_scope never grows a scope: after limit_scope(self, other) the
\* stored start is no smaller and the stored end no larger than before the
\* call; hence, after any sequence of calls, the scope lies inside the one
\* set_scope computed.
C1_LimitScopeNeverGrows ==
    /\ call.op = "limit_scope" =>
           /\ scope_start >= call.pre_scope_start
           /\ scope_end <= call.pre_scope_end
    /\ scope_start >= InitialScope[1]
    /\ scope_end <= InitialScope[2]

\* a bidirectional occurrence already clipped on one side by an earlier call
\* is clipped on the other side by this one
C1_Witness ==
    /\ call.op = "limit_scope"
    /\ item.rule = "BIDIRECTIONAL"
    /\ scope_start > call.pre_scope_start
    /\ call.pre_scope_end < InitialScope[2]

\* C2: same-category limiting: for non-terminators A (FORWARD) and B of one
\* sentence, equal category and identical type filters, B after A,
\* limit_scope(A, B) sets A's scope end to min(previous end, B.start), and
\* A then modifies no target lying at or after B's end.
C2_SameCategoryLimits ==
    ( /\ call.op = "limit_scope"
      /\ item.rule = "FORWARD"
      /\ Other.item.rule # "TERMINATE"
      /\ Other.item.category = item.category
      /\ Other.item.allowed_types = item.allowed_types
      /\ Other.item.excluded_types = item.excluded_types
      /\ OtherAfterSelf )
    => /\ scope_end = Min(call.pre_scope_end, Other.start)
       /\ \A t \in Targets : t.start >= Other.end => ~modifies(Self, t)

\* C3: terminator limiting: for a FORWARD or BIDIRECTIONAL self and a
\* TERMINATE other after it in the same sentence, limit_scope(self, other)
\* leaves self's scope end at or before other.start, whatever the categories
\* and type filters, so self modifies no target after the terminator.
C3_TerminatorLimits ==
    ( /\ call.op = "limit_scope"
      /\ item.rule \in {"FORWARD", "BIDIRECTIONAL"}
      /\ Other.item.rule = "TERMINATE"
      /\ OtherAfterSelf )
    => /\ scope_end <= Other.start
       /\ \A t \in Targets : t.start >= Other.end => ~modifies(Self, t)

\* C4: scope well-formedness: after set_scope and any sequence of limit_scope
\* calls the stored scope is a valid half-open range of the document,
\* 0 <= _scope_start <= _scope_end <= document length, never an inverted one.
C4_ScopeWellFormed ==
    /\ 0 <= scope_start
    /\ scope_start <= scope_end
    /\ scope_end <= DocLen

\* C5: modifies(self, target) is true if and only if (1) neither span's first
\* or last token lies in the other, (2) self's rule is not TERMINATE, (3) the
\* type filter permits the target's upper-cased label, and (4) the target's
\* first or last token lies within self's current scope.
C5_ModifiesIff ==
    call.op = "modifies" =>
        ( ret = "True" <=>
            /\ {start, end - 1} \cap TokensOf(Target) = {}
            /\ {Target.start, Target.end - 1} \cap (start .. (end - 1)) = {}
            /\ item.rule # "TERMINATE"
            /\ \/ item.allowed_types # None /\ Upper(Target.label_) \in item.allowed_types[1]
               \/ /\ item.allowed_types = None
                  /\ item.excluded_types # None
                  /\ Upper(Target.label_) \notin item.excluded_types[1]
               \/ item.allowed_types = None /\ item.excluded_types = None
            /\ \E i \in {Target.start, Target.end - 1} : scope_start <= i /\ i < scope_end )

\* a target reaching into a scope that limit_scope has shortened, by its first
\* token alone, is claimed by an occurrence with an exclusion filter
C5_Witness ==
    /\ call.op = "modifies"
    /\ ret = "True"
    /\ item.excluded_types # None
    /\ scope_end < InitialScope[2]
    /\ Target.start < scope_end
    /\ Target.end - 1 >= scope_end

\* C7: max_scope cap: with max_scope = k, after set_scope and any sequence of
\* limit_scope calls the forward extent _scope_end - end is <= k for FORWARD,
\* the backward extent start - _scope_start is <= k for BACKWARD, both are
\* <= k for every other rule; and the scope stays within the sentence of the
\* occurrence.
C7_MaxScopeCap ==
    /\ item.max_scope # None =>
           /\ item.rule # "BACKWARD" => scope_end - end <= item.max_scope[1]
           /\ item.rule # "FORWARD" => start - scope_start <= item.max_scope[1]
    /\ sent(start).start <= scope_start
    /\ scope_start <= sent(start).end
    /\ sent(start).start <= scope_end
    /\ scope_end <= sent(start).end

\* a bidirectional occurrence capped on both sides at construction, with the
\* forward side at the cap, after limit_scope has clipped its backward side
C7_Witness ==
    /\ call.op = "limit_scope"
    /\ item.rule = "BIDIRECTIONAL"
    /\ item.max_scope # None
    /\ InitialScope[1] > sent(start).start
    /\ InitialScope[2] < sent(start).end
    /\ scope_end - end = item.max_scope[1]
    /\ scope_start > call.pre_scope_start

\* C8: limit_scope returns True exactly when the stored bounds after the call
\* differ from those before it and False exactly when they are unchanged, for
\* every pair of occurrences.
C8_ReturnsWhetherChanged ==
    call.op = "limit_scope" =>
        LET changed == << scope_start, scope_end >> #
                       << call.pre_scope_start, call.pre_scope_end >>
        IN  /\ ret = "True" <=> changed
            /\ ret = "False" <=> ~changed

\* self as limit_scope(self, other) leaves it
Limited(self, other) ==
    LET r == limit_scope(self, other, span_order)
    IN  [ self EXCEPT !.scope_start = r.scope_start, !.scope_end = r.scope_end ]

\* self as the constructor left it
FreshSelf ==
    [ Self EXCEPT !.scope_start = InitialScope[1], !.scope_end = InitialScope[2] ]

\* C10: order independence of limiting: limit_scope(self, o), called in any
\* reachable state of self, leaves the intersection of the scope it found and
\* the scope the same call leaves on the freshly constructed self, which
\* depends on o's span, category, rule and type filters alone.  The final
\* scope after limiting against a set of others is therefore the intersection
\* of these per-other scopes, the same in every processing order, and
\* repeating a call changes nothing further.
C10_OrderIndependent ==
    call.op = "limit_scope" =>
        /\ scope_start = Max(call.pre_scope_start, Limited(FreshSelf, Other).scope_start)
        /\ scope_end = Min(call.pre_scope_end, Limited(FreshSelf, Other).scope_end)
        /\ Limited(Self, Other) = Self

\* a call that finds a scope an earlier call has clipped further than it
\* would itself, and leaves it alone: in the other order both calls clip
C10_Witness ==
    /\ call.op = "limit_scope"
    /\ call.pre_scope_end < Limited(FreshSelf, Other).scope_end
    /\ Limited(FreshSelf, Other).scope_end < InitialScope[2]
    /\ scope_end = call.pre_scope_end

\* the distance of a claimed target, as the claim words it
ClaimedDist(t) ==
    LET a == IF start >= t.end THEN start - t.end ELSE t.end - start
        b == IF t.start >= end THEN t.start - end ELSE end - t.start
    IN  IF a <= b THEN a ELSE b

\* how many claimed targets come before the i-th one when the claims are
\* ordered by distance, equal distances in claim order
RankOf(claimed, i) ==
    Cardinality({ j \in 1 .. Len(claimed) :
        \/ ClaimedDist(claimed[j]) < ClaimedDist(claimed[i])
        \/ ClaimedDist(claimed[j]) = ClaimedDist(claimed[i]) /\ j < i })

\* C6: reduce_targets with cap n = max_targets and more than n claimed targets
\* keeps exactly the n targets of smallest distance, in ascending distance,
\* ties in claim order; with no cap or at most n claimed targets the list is
\* left unchanged; afterwards num_targets is the number of retained targets.
C6_ReduceKeepsNearest ==
    call.op = "reduce_targets" =>
        /\ num_targets = Len(targets)
        /\ IF item.max_targets # None /\ Len(call.pre_targets) > item.max_targets[1]
           THEN /\ Len(targets) = item.max_targets[1]
                /\ \A i \in 1 .. Len(call.pre_targets) :
                       RankOf(call.pre_targets, i) < item.max_targets[1] =>
                           targets[RankOf(call.pre_targets, i) + 1] = call.pre_targets[i]
           ELSE targets = call.pre_targets

\* a reduction that discards a target, keeps two targets at the same distance
\* in claim order and moves a nearer target ahead of an earlier claim
C6_Witness ==
    /\ call.op = "reduce_targets"
    /\ Len(targets) = 2
    /\ Len(call.pre_targets) = 3
    /\ targets[1] # targets[2]
    /\ ClaimedDist(targets[1]) = ClaimedDist(targets[2])
    /\ ClaimedDist(call.pre_targets[1]) > ClaimedDist(targets[1])

\* C9: in every reachable state, also after reduce_targets has discarded
\* targets, modify(target) appends exactly that target to the claimed list and
\* increases num_targets by one, leaving the scope unchanged; so num_targets
\* is the length of the claimed list after any calls of modify and
\* reduce_targets.
C9_ModifyAppends ==
    /\ call.op = "modify" =>
           /\ targets = Append(call.pre_targets, Target)
           /\ num_targets = call.pre_num_targets + 1
           /\ scope_start = call.pre_scope_start
           /\ scope_end = call.pre_scope_end
    /\ num_targets = Len(targets)

====
